---- MODULE Spec2Model ----
(***************************************************************************)
(* where-was-eye: the timeline store of src/src/where_was_eye/timeline_db.py *)
(* (MyTimelineDB): building the interval index from a location-history      *)
(* export, the hash-validated on-disk cache, and the point-in-time query.   *)
(*                                                                         *)
(* Instants are integers (minutes); sequences are 1-based, so position p   *)
(* of the Python code is position p+1 here.                                *)
(***************************************************************************)
EXTENDS Integers, Sequences, FiniteSets, TLC

VARIABLES
    source,       \* the source files: path -> content (Missing, Malformed or an array of records)
    versions,     \* the two contents source files hold (fixed per behaviour)
    pandas_major, \* the installed pandas generation (fixed per behaviour): 1 or 2
    cache,        \* the files of the cache directory ".timeline_cache" shared by all paths
    db,           \* the store returned by the latest construction (None: none was returned)
    last,         \* the latest operation and its outcome
    dateutil_parser, \* whether "from dateutil import parser" succeeded (fixed per behaviour)
    threads,      \* each thread: where it stands in a query on db, or in a construction
                  \* or a save taken step by step, with the locals of that call
    call,         \* a call of one of the module's functions: its arguments and what it returned
    origin        \* the save that wrote each file of the cache directory (history, followed
                  \* where constructions and saves are taken step by step)

vars == <<source, versions, pandas_major, cache, db, last, dateutil_parser, threads, call,
          origin>>

----------------------------------------------------------------------------
(* Bounds of the model *)

\* longest source array
MaxRecords == 2
\* query instants range over 0..MaxTime
MaxTime == 3
\* most key/value pairs in a record text
MaxTokens == 3

----------------------------------------------------------------------------
(* Values *)

\* Every value is a record tagged by k, so that an optional value can be
\* compared with None.
None == [k |-> "None"]
Missing == [k |-> "missing"]       \* no readable file at the path
Malformed == [k |-> "malformed"]   \* a readable file whose text is not valid JSON
Absent == [k |-> "absent"]         \* a cache file that does not exist

\* a readable source file holding a JSON array
Array(items) == [k |-> "array", items |-> items]

\* the two source paths; both live in one directory, so
\* os.path.dirname(db_path) and therefore cache_dir are the same for both
Paths == {"p1.json", "p2.json"}
\* the path whose file is rewritten and removed; the other path holds either
\* no file or a second export that stays as it is
Edited == "p1.json"

\* A timestamp string: the wall-clock minute and its suffix: "Z", "+00:00",
\* "+00:01" (an offset of one minute) or "" (no suffix).
Stamp(w, suffix) == [k |-> "stamp", wall |-> w, suffix |-> suffix]
\* a string that is no date-time
Garbage == [k |-> "garbage"]
\* a date-time in the basic format, "20240820T153000" and its suffix
BasicStamp(w, suffix) == [k |-> "basic", wall |-> w, suffix |-> suffix]
\* "2024-13-45T99:99:99" and its suffix: the shape of a date-time, components out of range
OutOfRange(suffix) == [k |-> "out-of-range", suffix |-> suffix]
\* the string ""
EmptyString == [k |-> "empty"]
\* a value that is no string (12345)
Number == [k |-> "number"]

\* "geo:lat,lon"
Geo(a, b) == [k |-> "geo", lat |-> a, lon |-> b]

\* A raw record of the export: which of the marker keys it has, its top-level
\* startTime/endTime strings (None: key absent), the visit's
\* topCandidate.placeLocation and the activity's start and end points.
Rec(keys, s, e, place, astart, aend) ==
    [keys |-> keys, startTime |-> s, endTime |-> e,
     placeLocation |-> place, start |-> astart, end |-> aend]

\* The records source arrays are made of: one without a marker key, a visit
\* over [0, 1], an activity whose start (2) and end (2+00:01, i.e. 1 UTC) are
\* reversed, and a path segment whose endTime is no date-time.
RecordPool ==
    { Rec({}, Stamp(0, "Z"), Stamp(3, "Z"), None, None, None),
      Rec({"visit"}, Stamp(0, "Z"), Stamp(1, "+00:00"), Geo(10, 11), None, None),
      Rec({"activity"}, Stamp(2, ""), Stamp(2, "+00:01"), None, Geo(20, 21), Geo(22, 23)),
      Rec({"timelinePath"}, Stamp(2, "Z"), Garbage, None, None, None) }

RECURSIVE SeqsUpTo(_, _)
SeqsUpTo(S, n) ==
    IF n = 0 THEN {<<>>}
    ELSE LET shorter == SeqsUpTo(S, n - 1)
         IN shorter \cup {Append(s, x) : s \in {q \in shorter : Len(q) = n - 1}, x \in S}

\* the valid source contents: JSON arrays of records
Arrays == {Array(items) : items \in SeqsUpTo(RecordPool, MaxRecords)}

\* the second content of a behaviour: the empty array or a single visit
Edits == {Array(<<>>)} \cup {Array(<<r>>) : r \in {x \in RecordPool : x.keys = {"visit"}}}

QueryTimes == 0..MaxTime

----------------------------------------------------------------------------
(* Parsing one record *)

\* the call ended in an exception
Raised == [k |-> "raised"]

\* isinstance(s, str)
IsStr(s) == s.k \in {"stamp", "basic", "out-of-range", "garbage", "empty", "geo"}

\* the utcoffset, in minutes, an ISO suffix denotes
OffsetOf(suffix) == IF suffix = "+00:01" THEN 1 ELSE 0

\* a datetime: its wall clock, whether it is timezone-aware, and its utcoffset
Datetime(w, suffix) ==
    [k |-> "datetime", wall |-> w, aware |-> (suffix # ""), utcoffset |-> OffsetOf(suffix)]

\* what a parser raises on a text it does not accept
ValueError == [k |-> "ValueError"]

\* datetime.fromisoformat of Python 3.7 to 3.10: the extended format with no
\* offset or an offset "+HH:MM". (Python 3.11 also accepts what IsoParse
\* accepts below, so that build behaves as one where dateutil is installed.)
FromIsoFormat(t) ==
    IF t.k = "stamp" /\ t.suffix # "Z" THEN Datetime(t.wall, t.suffix) ELSE ValueError

\* dateutil.parser.isoparse: the extended and the basic format, "Z" as UTC
IsoParse(s) ==
    IF s.k \in {"stamp", "basic"}
    THEN Datetime(s.wall, IF s.suffix = "Z" THEN "+00:00" ELSE s.suffix)
    ELSE ValueError

\* a parse_dt_loose that hands the text to fromisoformat as it is
ParseDtLooseNoRewrite(s) ==
    IF ~IsStr(s) THEN None
    ELSE IF FromIsoFormat(s) # ValueError THEN FromIsoFormat(s)
    ELSE IF dateutil_parser /\ IsoParse(s) # ValueError THEN IsoParse(s)
    ELSE None

\* a parse_dt_loose without the isinstance guard: s.strip() of a value that
\* is no string raises AttributeError
ParseDtLooseUnguarded(s) ==
    IF ~IsStr(s) THEN Raised
    ELSE LET t == IF s.k \in {"stamp", "basic", "out-of-range"} /\ s.suffix = "Z"
                  THEN [s EXCEPT !.suffix = "+00:00"] ELSE s
         IN IF FromIsoFormat(t) # ValueError THEN FromIsoFormat(t)
            ELSE IF dateutil_parser /\ IsoParse(s) # ValueError THEN IsoParse(s)
            ELSE None

\* parse_dt_loose: a non-string gives None; a trailing "Z" is rewritten to
\* "+00:00" and the text parsed by datetime.fromisoformat; on failure
\* dateutil's isoparse, when installed, is tried on the original text; a
\* string no parser accepts gives None.
ParseDtLoose(s) ==
    IF ~IsStr(s) THEN None
    ELSE LET t == IF s.k \in {"stamp", "basic", "out-of-range"} /\ s.suffix = "Z"
                  THEN [s EXCEPT !.suffix = "+00:00"] ELSE s
             iso == FromIsoFormat(t)
         IN IF iso # ValueError THEN iso
            ELSE IF dateutil_parser /\ IsoParse(s) # ValueError THEN IsoParse(s)
            ELSE None

\* A record text is the sequence of its "key": value pairs in text order and
\* whether the text as a whole parses (as JSON or as a Python literal). A
\* pair is a top-level entry of the mapping (top) or lies nested inside it.
Pair(key, val, top) == [key |-> key, val |-> val, top |-> top]
Text(tokens, parses) == [k |-> "text", tokens |-> tokens, parses |-> parses]

\* json.dumps(item) of a record of the export
JsonDumps(item) ==
    Text((IF item.startTime # None THEN <<Pair("startTime", item.startTime, TRUE)>> ELSE <<>>)
         \o (IF item.endTime # None THEN <<Pair("endTime", item.endTime, TRUE)>> ELSE <<>>)
         \o (IF "visit" \in item.keys
             THEN <<Pair("placeLocation", item.placeLocation, FALSE)>> ELSE <<>>)
         \o (IF "activity" \in item.keys
             THEN <<Pair("start", item.start, FALSE), Pair("end", item.end, FALSE)>> ELSE <<>>),
         TRUE)

RECURSIVE TopLevel(_)
TopLevel(tokens) ==
    IF tokens = <<>> THEN <<>>
    ELSE (IF Head(tokens).top THEN <<Head(tokens)>> ELSE <<>>) \o TopLevel(Tail(tokens))

\* a parse_loose_mapping whose last fallback (ast.literal_eval) is not
\* wrapped in try: a text no parser accepts raises
ParseLooseMappingUncaught(text) ==
    IF text.parses THEN [k |-> "dict", tokens |-> TopLevel(text.tokens)] ELSE Raised

\* parse_loose_mapping: the top-level entries when the text parses, else None
ParseLooseMapping(text) ==
    IF text.parses THEN [k |-> "dict", tokens |-> TopLevel(text.tokens)] ELSE None

SetMax(S) == CHOOSE x \in S : \A y \in S : y <= x

\* obj[key] (a repeated key keeps its last value); None when the key is absent
GetItem(obj, key) ==
    LET I == {i \in 1..Len(obj.tokens) : obj.tokens[i].key = key}
    IN IF I = {} THEN None ELSE obj.tokens[SetMax(I)].val

\* lines 115-122: the value of the first of the keys that holds a string
FirstStr(obj, keys) ==
    LET K == {j \in 1..Len(keys) : IsStr(GetItem(obj, keys[j]))}
    IN IF K = {} THEN None
       ELSE GetItem(obj, keys[CHOOSE j \in K : \A i \in K : j <= i])

\* m.group('key').lower()
Lower(key) ==
    IF key = "startTime" THEN "starttime" ELSE IF key = "endTime" THEN "endtime" ELSE key

\* KEYVAL_RE matches the pair: one of the six keys with a quoted, non-empty value
KeyvalMatches(p) ==
    /\ Lower(p.key) \in {"starttime", "endtime", "start_time", "end_time", "start", "end"}
    /\ IsStr(p.val) /\ p.val # EmptyString

\* found.get(key) after the loop of lines 127-130
FoundGet(text, key) ==
    LET I == {i \in 1..Len(text.tokens) :
                 KeyvalMatches(text.tokens[i]) /\ Lower(text.tokens[i].key) = key}
    IN IF I = {} THEN None ELSE text.tokens[SetMax(I)].val

\* ISO_RE matches the value: the shape of a date-time with "Z" or an offset
IsoMatches(v) == v.k \in {"stamp", "out-of-range"} /\ v.suffix # ""

\* ISO_RE.findall(text)
RECURSIVE IsoFindall(_)
IsoFindall(tokens) ==
    IF tokens = <<>> THEN <<>>
    ELSE (IF IsoMatches(Head(tokens).val) THEN <<Head(tokens).val>> ELSE <<>>)
         \o IsoFindall(Tail(tokens))

\* bool(v) of a string or None: neither None nor ""
Truthy(v) == v # None /\ v # EmptyString

\* Python's "a or b"
Or(a, b) == IF Truthy(a) THEN a ELSE b

\* lines 113-122: what the mapping holds under the start keys and the end keys
MappingKeys(obj) ==
    IF obj = None THEN [start_raw |-> None, end_raw |-> None]
    ELSE [start_raw |-> FirstStr(obj, <<"startTime", "start_time", "start">>),
          end_raw |-> FirstStr(obj, <<"endTime", "end_time", "end">>)]

\* lines 125-132: the key/value scan, run when a start or an end is missing
KeyvalScan(text, raw) ==
    IF raw.start_raw = None \/ raw.end_raw = None
    THEN [start_raw |-> Or(raw.start_raw, Or(FoundGet(text, "starttime"),
                           Or(FoundGet(text, "start_time"), FoundGet(text, "start")))),
          end_raw |-> Or(raw.end_raw, Or(FoundGet(text, "endtime"),
                         Or(FoundGet(text, "end_time"), FoundGet(text, "end"))))]
    ELSE raw

\* lines 135-141: the first two ISO timestamps fill in what is still missing
IsoScan(raw, hits) ==
    [start_raw |-> IF raw.start_raw = None /\ Len(hits) >= 1 THEN hits[1] ELSE raw.start_raw,
     end_raw |-> IF raw.end_raw = None /\ Len(hits) >= 2 THEN hits[2] ELSE raw.end_raw]

\* lines 143-144: parse_dt_loose(raw) if raw else None
ParseRaw(raw) == IF Truthy(raw) THEN ParseDtLoose(raw) ELSE None

\* lines 146-147: the returned triple; extract_interval has no try of its
\* own, so an exception of parse_dt_loose would end it
Triple(start_dt, end_dt, raw) ==
    IF start_dt = Raised \/ end_dt = Raised THEN Raised
    ELSE [start_dt |-> start_dt, end_dt |-> end_dt, meta |-> raw]

\* lines 124-147 for the raw strings of the mapping
Recover(text, raw) == Triple(ParseRaw(raw.start_raw), ParseRaw(raw.end_raw), raw)

\* lines 111-147 for the outcome obj of parse_loose_mapping (an exception of
\* it would end extract_interval as well)
ExtractFrom(text, obj) ==
    IF obj = Raised THEN Raised
    ELSE Recover(text, IsoScan(KeyvalScan(text, MappingKeys(obj)), IsoFindall(text.tokens)))

\* extract_interval(text): the three layers and the parse of what they found
ExtractInterval(text) == ExtractFrom(text, ParseLooseMapping(text))

\* a to_utc_naive that drops the timezone without converting to UTC
\* (ts.tz_localize(None) alone)
ToUtcNaiveUnconverted(x) == x.wall

\* to_utc_naive (assume_utc_for_naive = True): a naive value keeps its wall
\* clock, an aware one is converted to UTC and the timezone dropped.
ToUtcNaive(x) ==
    IF ~x.aware THEN x.wall ELSE x.wall - x.utcoffset

\* an element of the source array that is a JSON object; "'visit' not in item"
\* (line 237) raises TypeError on a number, true, false or null
IsMapping(item) == "keys" \in DOMAIN item

\* line 241: start_dt is None or end_dt is None
NoInterval(r) == r.start_dt = None \/ r.end_dt = None

\* lines 237-242 of _initialize_db: the record is skipped
Skipped(item) ==
    \/ ("visit" \notin item.keys /\ "activity" \notin item.keys
            /\ "timelinePath" \notin item.keys)
    \/ NoInterval(ExtractInterval(JsonDumps(item)))

\* a build without the guard of lines 246-247
Unordered(s, e) == [left |-> s, right |-> e]

\* lines 246-248: the endpoints swapped when reversed
Ordered(s, e) == IF s > e THEN [left |-> e, right |-> s] ELSE [left |-> s, right |-> e]

\* lines 244-245: both instants of an extracted interval in UTC
Normalized(r) == Ordered(ToUtcNaive(r.start_dt), ToUtcNaive(r.end_dt))

\* lines 244-248 of _initialize_db: the (s, e) tuple of a record that is kept
IntervalTuple(item) == Normalized(ExtractInterval(JsonDumps(item)))

\* the loop of _initialize_db (lines 235-248): all_interval_tuples
RECURSIVE AllIntervalTuples(_)
AllIntervalTuples(all_history) ==
    IF all_history = <<>> THEN <<>>
    ELSE LET item == Head(all_history)
             rest == AllIntervalTuples(Tail(all_history))
         IN IF Skipped(item) THEN rest ELSE <<IntervalTuple(item)>> \o rest

----------------------------------------------------------------------------
(* The interval index *)

\* pd.IntervalIndex.from_tuples(tuples, closed='both'): the endpoints of an
\* empty list are coerced to int64, those of Timestamps are datetime64[ns]
FromTuples(tuples) ==
    [k |-> "index", dtype |-> IF tuples = <<>> THEN "int64" ELSE "datetime64", ivs |-> tuples]

\* pd.IntervalIndex.from_arrays(pd.to_datetime(left_ns), pd.to_datetime(right_ns))
FromArrays(arrs) ==
    [k |-> "index", dtype |-> "datetime64", ivs |-> arrs]

SetMin(S) == CHOOSE x \in S : \A y \in S : x <= y

Abs(x) == IF x < 0 THEN -x ELSE x

\* a find_interval_or_nearest over an index built with closed='neither': the
\* endpoints of an interval do not count as inside it
FindIntervalOrNearestOpen(time_idx, t) ==
    LET ivs == time_idx.ivs
        n == Len(ivs)
        mask == {i \in 1..n : ivs[i].left < t /\ t < ivs[i].right}
        dist_ns == [i \in 1..n |->
                       IF Abs(t - ivs[i].left) <= Abs(ivs[i].right - t)
                       THEN Abs(t - ivs[i].left) ELSE Abs(ivs[i].right - t)]
    IN IF mask # {} THEN [raised |-> FALSE, pos |-> SetMin(mask), contains |-> TRUE]
       ELSE IF n = 0 THEN [raised |-> TRUE, pos |-> 0, contains |-> FALSE]
       ELSE [raised |-> FALSE,
             pos |-> SetMin({i \in 1..n : \A j \in 1..n : dist_ns[i] <= dist_ns[j]}),
             contains |-> FALSE]

\* a find_interval_or_nearest that takes the last position of the least
\* endpoint distance (len - 1 - argmin of the reversed array)
FindIntervalOrNearestLastMin(time_idx, t) ==
    LET ivs == time_idx.ivs
        n == Len(ivs)
        mask == {i \in 1..n : ivs[i].left <= t /\ t <= ivs[i].right}
        dist_ns == [i \in 1..n |->
                       IF Abs(t - ivs[i].left) <= Abs(ivs[i].right - t)
                       THEN Abs(t - ivs[i].left) ELSE Abs(ivs[i].right - t)]
    IN IF mask # {} THEN [raised |-> FALSE, pos |-> SetMin(mask), contains |-> TRUE]
       ELSE IF n = 0 THEN [raised |-> TRUE, pos |-> 0, contains |-> FALSE]
       ELSE [raised |-> FALSE,
             pos |-> SetMax({i \in 1..n : \A j \in 1..n : dist_ns[i] <= dist_ns[j]}),
             contains |-> FALSE]

\* find_interval_or_nearest: the first containing position, else the first
\* position of the least endpoint distance; argmin of an empty array raises
FindIntervalOrNearest(time_idx, t) ==
    LET ivs == time_idx.ivs
        n == Len(ivs)
        mask == {i \in 1..n : ivs[i].left <= t /\ t <= ivs[i].right}
        dist_ns == [i \in 1..n |->
                       IF Abs(t - ivs[i].left) <= Abs(ivs[i].right - t)
                       THEN Abs(t - ivs[i].left) ELSE Abs(ivs[i].right - t)]
    IN IF mask # {} THEN [raised |-> FALSE, pos |-> SetMin(mask), contains |-> TRUE]
       ELSE IF n = 0 THEN [raised |-> TRUE, pos |-> 0, contains |-> FALSE]
       ELSE [raised |-> FALSE,
             pos |-> SetMin({i \in 1..n : \A j \in 1..n : dist_ns[i] <= dist_ns[j]}),
             contains |-> FALSE]

----------------------------------------------------------------------------
(* The query *)

Float(x) == [k |-> "float", v |-> x]

\* {"latitude": None, "longitude": None}
NotFound == [k |-> "location", latitude |-> None, longitude |-> None]

\* parse_geo_uri
ParseGeoUri(geo_string) ==
    [k |-> "location", latitude |-> Float(geo_string.lat), longitude |-> Float(geo_string.lon)]

\* get_location_at_time(year, month, day, hour, minute), t the instant of the
\* five fields with second = 0
GetLocationAtTime(self, t) ==
    IF self.time_idx = None \/ self.all_data = None THEN NotFound
    ELSE LET r == FindIntervalOrNearest(self.time_idx, t)
         IN IF r.raised THEN Raised
            ELSE IF ~r.contains THEN NotFound
            ELSE LET item == self.all_data.items[r.pos]
                 IN IF "visit" \in item.keys THEN ParseGeoUri(item.placeLocation)
                    ELSE IF "activity" \in item.keys THEN ParseGeoUri(item.start)
                    ELSE NotFound

----------------------------------------------------------------------------
(* The store and the cache directory *)

\* hashlib.sha256 of the file's bytes, modelled as injective in the content
Sha256(content) == [k |-> "sha256", of |-> content]

\* _get_file_hash: None when the file cannot be read
GetFileHash(files, file_path) ==
    IF files[file_path] = Missing THEN None ELSE Sha256(files[file_path])

\* the object __init__ sets up before _initialize_db fills it
NewStore(h) == [k |-> "store", time_idx |-> None, all_data |-> None, source_hash |-> h]

\* an artifact file (intervals.npz, all_data.pkl) whose bytes cannot be loaded
Corrupt == [k |-> "corrupt"]
\* a source_hash.txt that exists and cannot be read
Unreadable == [k |-> "unreadable"]

\* the files of a cache directory: intervals.npz, all_data.pkl, source_hash.txt
CacheFiles == {"intervals", "all_data", "source_hash"}

\* no file of the cache directory has been written by a save taken in steps
NoOrigin == [f \in CacheFiles |-> None]

\* no cache directory: exists tells whether the directory is there, the
\* other fields what its three files hold
EmptyCache ==
    [exists |-> FALSE, intervals |-> Absent, all_data |-> Absent, source_hash |-> Absent]

\* a _load_cache that does not compare the marker with the current hash
LoadCacheUnvalidated(self, cd, current_hash) ==
    IF ~(cd.intervals # Absent /\ cd.all_data # Absent)
    THEN [ok |-> FALSE, self |-> self, log |-> ""]
    ELSE IF cd.intervals = Corrupt \/ cd.all_data = Corrupt
    THEN [ok |-> FALSE, self |-> self, log |-> "Failed loading timeline cache"]
    ELSE [ok |-> TRUE,
          self |-> [self EXCEPT !.time_idx = FromArrays(cd.intervals.arrs),
                                !.all_data = [k |-> "list", items |-> cd.all_data.data]],
          log |-> ""]

\* _load_cache(cache_dir, current_hash): [ok, self, log], the returned flag,
\* the store after the call and the message logged ("" for none). The index
\* is assigned (line 332) before the record list is unpickled (line 334).
LoadCache(self, cd, current_hash) ==
    IF ~(cd.intervals # Absent /\ cd.all_data # Absent)
    THEN [ok |-> FALSE, self |-> self, log |-> ""]
    ELSE IF current_hash # None /\ cd.source_hash # Absent /\ cd.source_hash = Unreadable
    THEN [ok |-> FALSE, self |-> self, log |-> "Failed to read cache validation hash"]
    ELSE IF current_hash # None /\ cd.source_hash # Absent
            /\ cd.source_hash.text # current_hash
    THEN [ok |-> FALSE, self |-> self, log |-> "Cache invalidated"]
    ELSE IF cd.intervals = Corrupt
    THEN [ok |-> FALSE, self |-> self, log |-> "Failed loading timeline cache"]
    ELSE IF cd.all_data = Corrupt
    THEN [ok |-> FALSE,
          self |-> [self EXCEPT !.time_idx = FromArrays(cd.intervals.arrs)],
          log |-> "Failed loading timeline cache"]
    ELSE [ok |-> TRUE,
          self |-> [self EXCEPT !.time_idx = FromArrays(cd.intervals.arrs),
                                !.all_data = [k |-> "list", items |-> cd.all_data.data]],
          log |-> ""]

\* _time_idx.left.asi8 (line 278) on an index of int64 endpoints: pandas 1
\* returns the integers (with a deprecation warning), pandas 2 has no such
\* attribute and raises AttributeError
Asi8Raises(time_idx, pandas) == time_idx.dtype = "int64" /\ pandas = 2

\* _save_cache(cache_dir, source_hash): [ok, cd], whether it returned and the
\* cache directory after the call; the directory is made (line 275) before
\* the index is read (line 278)
SaveCache(self, cd, source_hash, pandas) ==
    IF self.time_idx = None \/ self.all_data = None
    THEN [ok |-> FALSE, cd |-> cd]
    ELSE IF Asi8Raises(self.time_idx, pandas)
    THEN [ok |-> FALSE, cd |-> [cd EXCEPT !.exists = TRUE]]
    ELSE [ok |-> TRUE,
          cd |-> [exists |-> TRUE,
                  intervals |-> [k |-> "npz", arrs |-> self.time_idx.ivs],
                  all_data |-> [k |-> "pkl", data |-> self.all_data.items],
                  source_hash |-> IF source_hash # None
                                  THEN [k |-> "txt", text |-> source_hash]
                                  ELSE cd.source_hash]]

\* lines 235-251 of _initialize_db: the store after parsing all_history
Parsed(self, all_history) ==
    [self EXCEPT !.time_idx = FromTuples(AllIntervalTuples(all_history)),
                 !.all_data = [k |-> "list", items |-> all_history]]

\* lines 253-258 of _initialize_db: the built store is saved (a failure of
\* the save is logged and swallowed) and returned
SavedAndReturned(built, cd, current_hash, pandas, log) ==
    [how |-> "parsed", self |-> built,
     cd |-> SaveCache(built, cd, current_hash, pandas).cd, log |-> log]

\* lines 226-258 of _initialize_db after the load of the cache
AfterLoad(loaded, content, cd, current_hash, pandas) ==
    IF loaded.ok
    THEN [how |-> "cache", self |-> loaded.self, cd |-> cd, log |-> loaded.log]
    ELSE IF content = Missing
    THEN [how |-> "FileNotFoundError", self |-> None, cd |-> cd, log |-> loaded.log]
    ELSE IF content = Malformed
    THEN [how |-> "JSONDecodeError", self |-> None, cd |-> cd, log |-> loaded.log]
    ELSE IF \E i \in 1..Len(content.items) : ~IsMapping(content.items[i])
    THEN [how |-> "TypeError", self |-> None, cd |-> cd, log |-> loaded.log]
    ELSE SavedAndReturned(Parsed(loaded.self, content.items), cd, current_hash, pandas,
                          loaded.log)

\* MyTimelineDB(db_path), i.e. __init__ and _initialize_db:
\* [how, self, cd, log]: how the call ended, the store it returned (None when
\* it raised), the cache directory afterwards and what the cache load logged
Construct(files, cd, db_path, pandas) ==
    AfterLoad(LoadCache(NewStore(GetFileHash(files, db_path)), cd,
                        GetFileHash(files, db_path)),
              files[db_path], cd, GetFileHash(files, db_path), pandas)

----------------------------------------------------------------------------
(* The state machine *)

\* what `last` holds: the operation ("files" for a change of the file system
\* made from outside the store), its arguments (those it has none of are "",
\* 0 or None) and how it ended
Op(op, path, t, h, result) ==
    [op |-> op, path |-> path, t |-> t, h |-> h, result |-> result]

Outcome(name) == [k |-> name]

\* the threads that query one store
Threads == {"t1", "t2"}
\* a thread outside get_location_at_time
Idle == [pc |-> "idle"]
\* no function of the module is being called
NoCall == [fn |-> "none"]

Init ==
    /\ versions \in (Arrays \cup {Malformed}) \X Edits
    /\ pandas_major \in {1, 2}
    /\ source \in [Paths -> {Missing, versions[2]}]
    /\ source[Edited] = Missing
    /\ cache = EmptyCache
    /\ db = None
    /\ last = Op("init", "", 0, None, Outcome("ok"))
    \* RecordPool holds no text whose parse depends on dateutil
    /\ dateutil_parser = FALSE
    /\ threads = [th \in Threads |-> Idle]
    /\ call = NoCall
    /\ origin = NoOrigin

\* the file at path p is written with one of the two contents
WriteSource(p, v) ==
    /\ p = Edited
    /\ source[p] # versions[v]
    /\ source' = [source EXCEPT ![p] = versions[v]]
    /\ last' = Op("files", "", 0, None, Outcome("ok"))
    /\ UNCHANGED <<versions, pandas_major, cache, db, dateutil_parser, threads, call, origin>>

\* the file at path p is removed (or made unreadable)
DeleteSource(p) ==
    /\ p = Edited
    /\ source[p] # Missing
    /\ source' = [source EXCEPT ![p] = Missing]
    /\ last' = Op("files", "", 0, None, Outcome("ok"))
    /\ UNCHANGED <<versions, pandas_major, cache, db, dateutil_parser, threads, call, origin>>

\* the call MyTimelineDB(p) has ended as c
Returns(p, c) ==
    /\ db' = c.self
    /\ cache' = c.cd
    /\ last' = Op("construct", p, 0, None, [k |-> c.how, log |-> c.log])

\* db = MyTimelineDB(p)
ConstructStore(p) ==
    /\ Returns(p, Construct(source, cache, p, pandas_major))
    /\ UNCHANGED <<source, versions, pandas_major, dateutil_parser, threads, call, origin>>

\* db.get_location_at_time(...) for the instant t
Query(t) ==
    /\ db # None
    /\ last' = Op("query", "", t, None, GetLocationAtTime(db, t))
    /\ UNCHANGED <<source, versions, pandas_major, cache, db, dateutil_parser, threads, call, origin>>

\* the hashes a caller passes to a direct _save_cache / _load_cache call:
\* the default None, or the hash the store recorded at construction
CallerHashes == IF db = None THEN {} ELSE {None, db.source_hash}

\* db._save_cache(cache_dir, h)
SaveCacheCall(h) ==
    /\ db # None
    /\ LET r == SaveCache(db, cache, h, pandas_major)
       IN /\ cache' = r.cd
          /\ last' = Op("save", "", 0, h, Outcome(IF r.ok THEN "ok" ELSE "raised"))
    /\ UNCHANGED <<source, versions, pandas_major, db, dateutil_parser, threads, call, origin>>

\* db._load_cache(cache_dir, h)
LoadCacheCall(h) ==
    /\ db # None
    /\ LET r == LoadCache(db, cache, h)
       IN /\ db' = r.self
          /\ last' = Op("load", "", 0, h, Outcome(IF r.ok THEN "True" ELSE "False"))
    /\ UNCHANGED <<source, versions, pandas_major, cache, dateutil_parser, threads, call, origin>>

\* the cache directory is removed (tests/conftest.py, cleanup_cache)
ClearCache ==
    /\ cache # EmptyCache
    /\ cache' = EmptyCache
    /\ last' = Op("files", "", 0, None, Outcome("ok"))
    /\ UNCHANGED <<source, versions, pandas_major, db, dateutil_parser, threads, call, origin>>

Next ==
    \/ \E p \in Paths, v \in 1..2 : WriteSource(p, v)
    \/ \E p \in Paths : DeleteSource(p)
    \/ \E p \in Paths : ConstructStore(p)
    \/ \E t \in QueryTimes : Query(t)
    \/ \E h \in CallerHashes : SaveCacheCall(h)
    \/ \E h \in CallerHashes : LoadCacheCall(h)
    \/ ClearCache

Spec == Init /\ [][Next]_vars

----------------------------------------------------------------------------
(* The store over a source and a cache directory that are damaged from outside *)

\* The records of the sources below: a visit over [0, 1], an activity over
\* [1, 2] written end first, and an array element that is a number.
FaultPool ==
    { Rec({"visit"}, Stamp(0, "Z"), Stamp(1, "+00:00"), Geo(10, 11), None, None),
      Rec({"activity"}, Stamp(2, ""), Stamp(2, "+00:01"), None, Geo(20, 21), Geo(22, 23)),
      Number }

InitFaults ==
    /\ versions \in {Array(items) : items \in SeqsUpTo(FaultPool, MaxRecords)} \X Edits
    /\ pandas_major \in {1, 2}
    /\ source = [p \in Paths |-> Missing]
    /\ cache = EmptyCache
    /\ db = None
    /\ last = Op("init", "", 0, None, Outcome("ok"))
    /\ dateutil_parser = FALSE
    /\ threads = [th \in Threads |-> Idle]
    /\ call = NoCall
    /\ origin = NoOrigin

\* a file of the cache directory is removed
RemoveCacheFile(f) ==
    /\ cache[f] # Absent
    /\ cache' = [cache EXCEPT ![f] = Absent]
    /\ last' = Op("files", "", 0, None, Outcome("ok"))
    /\ UNCHANGED <<source, versions, pandas_major, db, dateutil_parser, threads, call, origin>>

\* a file of the cache directory is damaged: an artifact is truncated or
\* overwritten with other bytes, the hash marker is made unreadable
CorruptCacheFile(f) ==
    /\ cache[f] \notin {Absent, Corrupt, Unreadable}
    /\ cache' = [cache EXCEPT ![f] = IF f = "source_hash" THEN Unreadable ELSE Corrupt]
    /\ last' = Op("files", "", 0, None, Outcome("ok"))
    /\ UNCHANGED <<source, versions, pandas_major, db, dateutil_parser, threads, call, origin>>

NextFaults ==
    \/ \E p \in Paths, v \in 1..2 : WriteSource(p, v)
    \/ \E p \in Paths : ConstructStore(p)
    \/ \E f \in CacheFiles : RemoveCacheFile(f)
    \/ \E f \in CacheFiles : CorruptCacheFile(f)
    \/ \E h \in CallerHashes : LoadCacheCall(h)

SpecFaults == InitFaults /\ [][NextFaults]_vars

----------------------------------------------------------------------------
(* Threads querying one store *)

\* A thread inside get_location_at_time for the instant t: it has located
\* the position pos (line 354) and not yet read the record (line 359) ...
Located(t, pos) == [pc |-> "located", t |-> t, pos |-> pos]
\* ... or it has returned result
Done(t, result) == [pc |-> "done", t |-> t, result |-> result]

InitQueries ==
    /\ versions \in Arrays \X {Array(<<>>)}
    /\ pandas_major \in {1, 2}
    /\ source = [p \in Paths |-> IF p = Edited THEN versions[1] ELSE Missing]
    /\ cache = EmptyCache
    /\ db = None
    /\ last = Op("init", "", 0, None, Outcome("ok"))
    /\ dateutil_parser = FALSE
    /\ threads = [th \in Threads |-> Idle]
    /\ call = NoCall
    /\ origin = NoOrigin

\* db = MyTimelineDB(p), while no thread is inside a query on the store that
\* db named before
ConstructWhenQuiet(p) ==
    /\ \A th \in Threads : threads[th].pc # "located"
    /\ ConstructStore(p)

\* lines 350-357 of get_location_at_time in thread th: the guard, the lookup
\* in the index and the return when no interval holds t
QueryLocate(th, t) ==
    /\ db # None
    /\ threads[th].pc # "located"
    /\ threads' = [threads EXCEPT ![th] =
          IF db.time_idx = None \/ db.all_data = None THEN Done(t, NotFound)
          ELSE LET r == FindIntervalOrNearest(db.time_idx, t)
               IN IF r.raised THEN Done(t, Raised)
                  ELSE IF ~r.contains THEN Done(t, NotFound)
                  ELSE Located(t, r.pos)]
    /\ UNCHANGED <<source, versions, pandas_major, cache, db, last, dateutil_parser, call, origin>>

\* a read of the record that takes it out of the list (_all_data.pop(pos))
QueryFetchPopping(th) ==
    /\ threads[th].pc = "located"
    /\ LET item == db.all_data.items[threads[th].pos]
           items == db.all_data.items
       IN /\ threads' = [threads EXCEPT ![th] = Done(threads[th].t,
                 IF "visit" \in item.keys THEN ParseGeoUri(item.placeLocation)
                 ELSE IF "activity" \in item.keys THEN ParseGeoUri(item.start)
                 ELSE NotFound)]
          /\ db' = [db EXCEPT !.all_data.items =
                 SubSeq(items, 1, threads[th].pos - 1)
                 \o SubSeq(items, threads[th].pos + 1, Len(items))]
    /\ UNCHANGED <<source, versions, pandas_major, cache, last, dateutil_parser, call, origin>>

\* lines 359-367 in thread th: the record at the position and its location
QueryFetch(th) ==
    /\ threads[th].pc = "located"
    /\ LET item == db.all_data.items[threads[th].pos]
       IN threads' = [threads EXCEPT ![th] = Done(threads[th].t,
              IF "visit" \in item.keys THEN ParseGeoUri(item.placeLocation)
              ELSE IF "activity" \in item.keys THEN ParseGeoUri(item.start)
              ELSE NotFound)]
    /\ UNCHANGED <<source, versions, pandas_major, cache, db, last, dateutil_parser, call, origin>>

NextQueries ==
    \/ \E p \in Paths : ConstructWhenQuiet(p)
    \/ \E th \in Threads, t \in QueryTimes : QueryLocate(th, t)
    \/ \E th \in Threads : QueryFetch(th)

SpecQueries == InitQueries /\ [][NextQueries]_vars

----------------------------------------------------------------------------
(* The module's functions called on their own *)

Suffixes == {"Z", "+00:00", "+00:01", ""}

\* the arguments parse_dt_loose is called with: date-times in the extended
\* and in the basic format, and what tests/test_timeline_db.py calls invalid
ParseInputs ==
    {Stamp(w, x) : w \in 0..MaxTime, x \in Suffixes}
    \cup {BasicStamp(w, x) : w \in 0..MaxTime, x \in Suffixes}
    \cup {OutOfRange(x) : x \in {"", "Z"}}
    \cup {Garbage, EmptyString, None, Number}

\* The key/value pairs record texts are made of: startTime at top level with
\* a date-time, with "" and with a number; a top-level start; a top-level
\* endTime; a startTime and an activity's end point nested inside the record;
\* and, under a key that is none of the six, a date-time and a text of the
\* shape of a date-time that is none.
TokenPool ==
    { Pair("startTime", Stamp(0, "Z"), TRUE),
      Pair("startTime", EmptyString, TRUE),
      Pair("startTime", Number, TRUE),
      Pair("start", Stamp(1, "Z"), TRUE),
      Pair("endTime", Stamp(2, "Z"), TRUE),
      Pair("startTime", Stamp(3, "Z"), FALSE),
      Pair("end", Geo(22, 23), FALSE),
      Pair("x", Stamp(3, "+00:01"), FALSE),
      Pair("x", OutOfRange("Z"), FALSE) }

\* the texts extract_interval is called with
TextInputs == {Text(tokens, parses) : tokens \in SeqsUpTo(TokenPool, MaxTokens),
                                      parses \in BOOLEAN}

\* the closed intervals over the query instants
Intervals == {iv \in [left : QueryTimes, right : QueryTimes] : iv.left <= iv.right}

\* the (time_idx, t) find_interval_or_nearest is called with
LocateInputs ==
    {[time_idx |-> FromTuples(ivs), t |-> t] :
        ivs \in SeqsUpTo(Intervals, MaxRecords), t \in QueryTimes}

\* the pairs of datetimes lines 244-245 of _initialize_db normalise
NormalizeInputs ==
    {[x |-> Datetime(w1, x1), y |-> Datetime(w2, x2)] :
        w1 \in 0..MaxTime, x1 \in Suffixes, w2 \in 0..MaxTime, x2 \in Suffixes}

\* a call that has not returned
Pending == [k |-> "pending"]

Call(fn, arg) == [fn |-> fn, arg |-> arg, ret |-> Pending]

InitPure ==
    /\ call \in {Call("parse_dt_loose", s) : s \in ParseInputs}
            \cup {Call("extract_interval", text) : text \in TextInputs}
            \cup {Call("find_interval_or_nearest", a) : a \in LocateInputs}
            \cup {Call("to_utc_naive", a) : a \in NormalizeInputs}
    /\ dateutil_parser \in BOOLEAN
    /\ pandas_major \in {1, 2}
    /\ versions = <<Array(<<>>), Array(<<>>)>>
    /\ source = [p \in Paths |-> Missing]
    /\ cache = EmptyCache
    /\ db = None
    /\ last = Op("init", "", 0, None, Outcome("ok"))
    /\ threads = [th \in Threads |-> Idle]
    /\ origin = NoOrigin

\* parse_dt_loose(s)
ParseDtLooseCall ==
    /\ call.fn = "parse_dt_loose" /\ call.ret = Pending
    /\ call' = [call EXCEPT !.ret = ParseDtLoose(call.arg)]
    /\ UNCHANGED <<source, versions, pandas_major, cache, db, last, dateutil_parser, threads, origin>>

\* extract_interval(text)
ExtractIntervalCall ==
    /\ call.fn = "extract_interval" /\ call.ret = Pending
    /\ call' = [call EXCEPT !.ret = ExtractInterval(call.arg)]
    /\ UNCHANGED <<source, versions, pandas_major, cache, db, last, dateutil_parser, threads, origin>>

\* find_interval_or_nearest(time_idx, t)
FindIntervalOrNearestCall ==
    /\ call.fn = "find_interval_or_nearest" /\ call.ret = Pending
    /\ call' = [call EXCEPT !.ret = FindIntervalOrNearest(call.arg.time_idx, call.arg.t)]
    /\ UNCHANGED <<source, versions, pandas_major, cache, db, last, dateutil_parser, threads, origin>>

\* s = to_utc_naive(x); e = to_utc_naive(y)
ToUtcNaiveCall ==
    /\ call.fn = "to_utc_naive" /\ call.ret = Pending
    /\ call' = [call EXCEPT !.ret = [x |-> ToUtcNaive(call.arg.x), y |-> ToUtcNaive(call.arg.y)]]
    /\ UNCHANGED <<source, versions, pandas_major, cache, db, last, dateutil_parser, threads, origin>>

NextPure ==
    \/ ParseDtLooseCall
    \/ ExtractIntervalCall
    \/ FindIntervalOrNearestCall
    \/ ToUtcNaiveCall

SpecPure == InitPure /\ [][NextPure]_vars

----------------------------------------------------------------------------
(* Constructions and saves taken step by step *)

\* most calls (constructions and direct saves) one thread makes
MaxCalls == 2

\* the contents of the source in these behaviours: a single visit first,
\* then the empty array or the single activity
StepVersions ==
    {Array(<<r>>) : r \in {x \in RecordPool : x.keys = {"visit"}}}
    \X ({Array(<<>>)} \cup {Array(<<r>>) : r \in {x \in RecordPool : x.keys = {"activity"}}})

\* A thread and the call it is in: pc, where it stands; op, the call
\* ("construct" or "save"); self, the object the call runs on; arg, the
\* source_hash given to _save_cache; content, all_history; how, the way the
\* call ended; save_ok, whether its _save_cache returned; n, the calls the
\* thread has made. History: trace, the cache loads, parses and saves the
\* call has begun, in order; wrote, whether it changed the cache directory.
Fresh ==
    [pc |-> "idle", op |-> "none", path |-> "", self |-> None, arg |-> None,
     content |-> None, how |-> "", save_ok |-> FALSE, n |-> 0,
     trace |-> <<>>, wrote |-> FALSE]

InitSteps ==
    /\ versions \in StepVersions
    /\ pandas_major \in {1, 2}
    /\ source = [p \in Paths |-> Missing]
    /\ cache = EmptyCache
    /\ db = None
    /\ last = Op("init", "", 0, None, Outcome("ok"))
    /\ dateutil_parser = FALSE
    /\ threads = [th \in Threads |-> Fresh]
    /\ call = NoCall
    /\ origin = NoOrigin

\* the save thread th is in
SaveId(th) == [k |-> "save", th |-> th, n |-> threads[th].n]

\* thread th moves on as t, leaving the cache directory as cd, written by org
Step(th, t, cd, org) ==
    /\ threads' = [threads EXCEPT ![th] = [t EXCEPT !.wrote = @ \/ cd # cache]]
    /\ cache' = cd
    /\ origin' = org
    /\ UNCHANGED <<source, versions, pandas_major, db, last, dateutil_parser, call>>

\* lines 197-200: MyTimelineDB(p) is called, the object has its None fields
Enter(th, p) ==
    /\ threads[th].pc \in {"idle", "done"}
    /\ threads[th].n < MaxCalls
    /\ Step(th, [Fresh EXCEPT !.pc = "hash", !.op = "construct", !.path = p,
                              !.self = NewStore(None), !.n = threads[th].n + 1],
            cache, origin)

\* lines 222-223: the source file is hashed
HashSource(th) ==
    /\ threads[th].pc = "hash"
    /\ Step(th, [threads[th] EXCEPT !.pc = "exists",
                     !.self.source_hash = GetFileHash(source, threads[th].path)],
            cache, origin)

\* lines 226 and 307-314: _load_cache is entered and looks for the artifacts
LoadExists(th) ==
    /\ threads[th].pc = "exists"
    /\ Step(th, [threads[th] EXCEPT !.trace = Append(@, "load"),
                     !.pc = IF cache.intervals # Absent /\ cache.all_data # Absent
                            THEN "marker" ELSE "read"],
            cache, origin)

\* lines 317-326: the marker against the current hash
MarkerRefuses(marker, current_hash) ==
    /\ current_hash # None
    /\ marker # Absent
    /\ (marker = Unreadable \/ marker.text # current_hash)

LoadMarker(th) ==
    /\ threads[th].pc = "marker"
    /\ Step(th, [threads[th] EXCEPT !.pc =
                     IF MarkerRefuses(cache.source_hash, threads[th].self.source_hash)
                     THEN "read" ELSE "intervals"],
            cache, origin)

\* lines 329-332: the index is loaded and assigned
LoadIntervals(th) ==
    /\ threads[th].pc = "intervals"
    /\ Step(th, IF cache.intervals \in {Absent, Corrupt}
                THEN [threads[th] EXCEPT !.pc = "read"]
                ELSE [threads[th] EXCEPT !.pc = "all_data",
                          !.self.time_idx = FromArrays(cache.intervals.arrs)],
            cache, origin)

\* a construction that saves again what it has loaded from the cache
LoadAllDataResaving(th) ==
    /\ threads[th].pc = "all_data"
    /\ Step(th, IF cache.all_data \in {Absent, Corrupt}
                THEN [threads[th] EXCEPT !.pc = "read"]
                ELSE [threads[th] EXCEPT !.pc = "save", !.arg = threads[th].self.source_hash,
                          !.self.all_data = [k |-> "list", items |-> cache.all_data.data]],
            cache, origin)

\* lines 333-335 and 227-228: the record list is loaded, the call returns
LoadAllData(th) ==
    /\ threads[th].pc = "all_data"
    /\ Step(th, IF cache.all_data \in {Absent, Corrupt}
                THEN [threads[th] EXCEPT !.pc = "read"]
                ELSE [threads[th] EXCEPT !.pc = "done", !.how = "cache",
                          !.self.all_data = [k |-> "list", items |-> cache.all_data.data]],
            cache, origin)

\* lines 230-251: the source file is opened, read and parsed
ReadSource(th) ==
    /\ threads[th].pc = "read"
    /\ Step(th, LET t == [threads[th] EXCEPT !.trace = Append(@, "parse")]
                    content == source[t.path]
                IN IF content = Missing
                   THEN [t EXCEPT !.pc = "done", !.how = "FileNotFoundError"]
                   ELSE IF content = Malformed
                   THEN [t EXCEPT !.pc = "done", !.how = "JSONDecodeError"]
                   ELSE IF \E i \in 1..Len(content.items) : ~IsMapping(content.items[i])
                   THEN [t EXCEPT !.pc = "done", !.how = "TypeError"]
                   ELSE [t EXCEPT !.pc = "save", !.content = content,
                             !.arg = t.self.source_hash,
                             !.self = Parsed(t.self, content.items)],
            cache, origin)

\* a construction that lets the exception of its _save_cache through
SaveEndPropagating(t, ok, error) ==
    [t EXCEPT !.pc = "done", !.save_ok = ok, !.how = IF ok THEN "parsed" ELSE error]

\* the _save_cache of a call has returned (ok) or raised error: _initialize_db
\* logs either (lines 254-258) and returns, a direct call ends as its save
SaveEnd(t, ok, error) ==
    [t EXCEPT !.pc = "done", !.save_ok = ok,
              !.how = IF t.op = "construct" THEN "parsed"
                      ELSE IF ok THEN "ok" ELSE error]

\* a _save_cache that makes the directory before it looks at the store
SaveEnterDirFirst(th) ==
    /\ threads[th].pc = "save"
    /\ LET t == [threads[th] EXCEPT !.trace = Append(@, "save")]
       IN IF t.self.time_idx = None \/ t.self.all_data = None
          THEN Step(th, SaveEnd(t, FALSE, "ValueError"),
                    [cache EXCEPT !.exists = TRUE], origin)
          ELSE Step(th, [t EXCEPT !.pc = "write_intervals"],
                    [cache EXCEPT !.exists = TRUE], origin)

\* lines 271-275: _save_cache is entered: the guard, then os.makedirs
SaveEnter(th) ==
    /\ threads[th].pc = "save"
    /\ LET t == [threads[th] EXCEPT !.trace = Append(@, "save")]
       IN IF t.self.time_idx = None \/ t.self.all_data = None
          THEN Step(th, SaveEnd(t, FALSE, "ValueError"), cache, origin)
          ELSE Step(th, [t EXCEPT !.pc = "write_intervals"],
                    [cache EXCEPT !.exists = TRUE], origin)

\* How the write of a file goes: "written"; "refused", the file cannot be
\* opened and stays as it is; "short", the write breaks off and leaves a
\* file that cannot be loaded.
WriteOutcomes == {"written", "refused", "short"}

\* the file f of the directory after a write of bytes that went as outcome
AfterWrite(cd, f, bytes, outcome) ==
    IF outcome = "written" THEN [cd EXCEPT ![f] = bytes]
    ELSE IF outcome = "short"
    THEN [cd EXCEPT ![f] = IF f = "source_hash"
                           THEN [k |-> "txt", text |-> EmptyString] ELSE Corrupt]
    ELSE cd

\* who wrote the file f after that write by thread th
AfterWriteBy(th, f, outcome) ==
    IF outcome = "refused" THEN origin ELSE [origin EXCEPT ![f] = SaveId(th)]

\* lines 278-281: the endpoints as int64, written to intervals.npz
WriteIntervals(th, outcome) ==
    /\ threads[th].pc = "write_intervals"
    /\ IF Asi8Raises(threads[th].self.time_idx, pandas_major)
       THEN Step(th, SaveEnd(threads[th], FALSE, "AttributeError"), cache, origin)
       ELSE Step(th, IF outcome = "written"
                     THEN [threads[th] EXCEPT !.pc = "write_all_data"]
                     ELSE SaveEnd(threads[th], FALSE, "OSError"),
                 AfterWrite(cache, "intervals",
                            [k |-> "npz", arrs |-> threads[th].self.time_idx.ivs], outcome),
                 AfterWriteBy(th, "intervals", outcome))

\* lines 284-286: the record list is pickled to all_data.pkl
WriteAllData(th, outcome) ==
    /\ threads[th].pc = "write_all_data"
    /\ Step(th, IF outcome = "written"
                THEN [threads[th] EXCEPT !.pc = "write_marker"]
                ELSE SaveEnd(threads[th], FALSE, "OSError"),
            AfterWrite(cache, "all_data",
                       [k |-> "pkl", data |-> threads[th].self.all_data.items], outcome),
            AfterWriteBy(th, "all_data", outcome))

\* lines 289-294: the hash, if one was given, is written to source_hash.txt
\* and _save_cache returns
WriteMarker(th, outcome) ==
    /\ threads[th].pc = "write_marker"
    /\ IF threads[th].arg = None
       THEN Step(th, SaveEnd(threads[th], TRUE, ""), cache, origin)
       ELSE Step(th, SaveEnd(threads[th], outcome = "written", "OSError"),
                 AfterWrite(cache, "source_hash",
                            [k |-> "txt", text |-> threads[th].arg], outcome),
                 AfterWriteBy(th, "source_hash", outcome))

\* obj._save_cache(cache_dir, source_hash) on the object of the thread's last
\* construction: source_hash is the hash the object recorded if one is
\* given, else the default None
SaveCall(th, given) ==
    /\ threads[th].pc = "done"
    /\ threads[th].n < MaxCalls
    /\ Step(th, [threads[th] EXCEPT !.pc = "save", !.op = "save",
                     !.arg = IF given THEN threads[th].self.source_hash ELSE None,
                     !.how = "", !.save_ok = FALSE, !.trace = <<>>, !.wrote = FALSE,
                     !.n = @ + 1],
            cache, origin)

\* the thread of the behaviours in which one thread works alone
Main == "t1"

\* one thread constructs and saves, any write may fail, the source is edited
NextSteps ==
    \/ \E p \in Paths, v \in 1..2 : WriteSource(p, v)
    \/ Enter(Main, Edited)
    \/ HashSource(Main)
    \/ LoadExists(Main)
    \/ LoadMarker(Main)
    \/ LoadIntervals(Main)
    \/ LoadAllData(Main)
    \/ ReadSource(Main)
    \/ SaveEnter(Main)
    \/ \E outcome \in WriteOutcomes : WriteIntervals(Main, outcome)
    \/ \E outcome \in WriteOutcomes : WriteAllData(Main, outcome)
    \/ \E outcome \in WriteOutcomes : WriteMarker(Main, outcome)
    \/ \E given \in BOOLEAN : SaveCall(Main, given)

SpecSteps == InitSteps /\ [][NextSteps]_vars

\* two threads construct over the same cache directory, every write going
\* through, while the source is edited
NextRaces ==
    \/ \E p \in Paths, v \in 1..2 : WriteSource(p, v)
    \/ \E th \in Threads : Enter(th, Edited)
    \/ \E th \in Threads : HashSource(th)
    \/ \E th \in Threads : LoadExists(th)
    \/ \E th \in Threads : LoadMarker(th)
    \/ \E th \in Threads : LoadIntervals(th)
    \/ \E th \in Threads : LoadAllData(th)
    \/ \E th \in Threads : ReadSource(th)
    \/ \E th \in Threads : SaveEnter(th)
    \/ \E th \in Threads : WriteIntervals(th, "written")
    \/ \E th \in Threads : WriteAllData(th, "written")
    \/ \E th \in Threads : WriteMarker(th, "written")

SpecRaces == InitSteps /\ [][NextRaces]_vars

----------------------------------------------------------------------------
(* What the specification says of a record, a source and a cache *)

\* the interval the build rules give a record, None for one they skip
IntervalOfRecord(item) == IF Skipped(item) THEN None ELSE IntervalTuple(item)

\* the records of a source array that yield an interval, in source order
RECURSIVE Survivors(_)
Survivors(items) ==
    IF items = <<>> THEN <<>>
    ELSE IF Skipped(Head(items)) THEN Survivors(Tail(items))
    ELSE <<Head(items)>> \o Survivors(Tail(items))

\* the location a record stands for
LocationOf(item) ==
    IF "visit" \in item.keys THEN ParseGeoUri(item.placeLocation)
    ELSE IF "activity" \in item.keys THEN ParseGeoUri(item.start)
    ELSE NotFound

Built(store) == store # None /\ store.time_idx # None /\ store.all_data # None

\* the positions of the store's index whose closed interval holds t
Containing(store, t) ==
    {i \in 1..Len(store.time_idx.ivs) :
        store.time_idx.ivs[i].left <= t /\ t <= store.time_idx.ivs[i].right}

\* the store holds what parsing the content gives
HoldsParseOf(store, content) ==
    /\ content.k = "array"
    /\ Built(store)
    /\ store.time_idx.ivs = AllIntervalTuples(content.items)
    /\ store.all_data.items = content.items

\* the cache directory holds the artifacts and the hash marker of the content
CacheHolds(cd, content) ==
    /\ content.k = "array"
    /\ cd.intervals = [k |-> "npz", arrs |-> AllIntervalTuples(content.items)]
    /\ cd.all_data = [k |-> "pkl", data |-> content.items]
    /\ cd.source_hash = [k |-> "txt", text |-> Sha256(content)]

Constructed == last.op = "construct" /\ last.result.k \in {"parsed", "cache"}

----------------------------------------------------------------------------
(* The claims *)

\* C1: in every state of a constructed store the interval index and the
\* record list have the same length, and the interval at position i is the
\* interval extracted from the record at position i, also when records were
\* skipped during the build.
C1_PositionalCorrespondence ==
    Built(db) =>
        /\ Len(db.time_idx.ivs) = Len(db.all_data.items)
        /\ \A i \in 1..Len(db.time_idx.ivs) :
               db.time_idx.ivs[i] = IntervalOfRecord(db.all_data.items[i])

\* C2: a query whose instant lies in the closed range of at least one indexed
\* interval returns the location of the record that produced the first
\* interval containing the instant.
C2_FirstContainingRecord ==
    (last.op = "query" /\ Built(db) /\ Containing(db, last.t) # {}) =>
        last.result = LocationOf(Survivors(db.all_data.items)[SetMin(Containing(db, last.t))])

\* C3: on every built store a query whose instant lies outside every indexed
\* interval returns the not-found location.
C3_OutsideIsNotFound ==
    (last.op = "query" /\ Built(db) /\ Containing(db, last.t) = {}) =>
        last.result = NotFound

\* C4: every store a construction returns holds exactly what parsing the
\* current content of its source file gives, whether parsed or loaded from
\* the cache.
C4_NeverStale ==
    Constructed => HoldsParseOf(db, source[last.path])

\* C5: a construction of the only source file of the directory that finds
\* the cache saved for content A while the file holds a different array B
\* rebuilds from B and leaves the cache directory holding B's artifacts and
\* B's hash marker.
C5_Invalidation ==
    [][\A p \in Paths :
          (/\ last'.op = "construct" /\ last'.path = p
           /\ \A q \in Paths \ {p} : source[q] = Missing
           /\ \E v \in 1..2 : CacheHolds(cache, versions[v]) /\ versions[v] # source[p]
           /\ source[p].k = "array")
          => (/\ last'.result.k = "parsed"
              /\ HoldsParseOf(db', source[p])
              /\ CacheHolds(cache', source[p]))]_vars

\* C6: a cache is accepted (the load returns True and fills the store) only
\* if both artifacts and the hash marker are present and the marker equals
\* the current hash of the source; without a marker or without a current
\* hash it is never accepted.
C6_AcceptedOnlyIfValid ==
    /\ (last.op = "construct" /\ last.result.k = "cache") =>
           /\ cache.intervals # Absent /\ cache.all_data # Absent
           /\ cache.source_hash # Absent
           /\ GetFileHash(source, last.path) # None
           /\ cache.source_hash.text = GetFileHash(source, last.path)
    /\ (last.op = "load" /\ last.result.k = "True") =>
           /\ cache.intervals # Absent /\ cache.all_data # Absent
           /\ cache.source_hash # Absent
           /\ last.h # None
           /\ cache.source_hash.text = last.h

\* C7: for every built store, save(cache_dir, h) followed by load(cache_dir, h)
\* succeeds and yields the same intervals and the same record list.
C7_RoundTrip ==
    [][(last.op = "save" /\ last'.op = "load" /\ last'.h = last.h /\ Built(db))
          => (/\ last.result.k = "ok"
              /\ last'.result.k = "True"
              /\ db'.time_idx.ivs = db.time_idx.ivs
              /\ db'.all_data = db.all_data)]_vars

\* C8: constructing a store whose source file is missing or unreadable always
\* raises and returns no store, whatever the cache directory holds.
C8_MissingSourceIsFatal ==
    (last.op = "construct" /\ source[last.path] = Missing) =>
        (last.result.k = "FileNotFoundError" /\ db = None)

\* C9: constructing a store from a source that is not valid JSON raises a
\* parse error and never returns a store, whatever the cache directory holds.
C9_MalformedSourceIsFatal ==
    (last.op = "construct" /\ source[last.path] = Malformed) =>
        (last.result.k = "JSONDecodeError" /\ db = None)

\* C10: construction from an array that yields no interval succeeds, and
\* every query on a store whose index is empty returns the not-found
\* location without raising.
C10_EmptyIndex ==
    /\ (/\ last.op = "construct" /\ source[last.path].k = "array"
        /\ AllIntervalTuples(source[last.path].items) = <<>>) => db # None
    /\ (last.op = "query" /\ Built(db) /\ db.time_idx.ivs = <<>>) =>
           last.result = NotFound

\* the cache directory holds at least one file, and reading or validating it
\* against the hash h fails: an artifact is missing or cannot be loaded, or
\* the marker that is to be compared with h differs from it or cannot be read
CacheFails(cd, h) ==
    /\ cd # EmptyCache
    /\ \/ cd.intervals = Absent \/ cd.all_data = Absent
       \/ cd.intervals = Corrupt \/ cd.all_data = Corrupt
       \/ h # None /\ cd.source_hash = Unreadable
       \/ h # None /\ cd.source_hash \notin {Absent, Unreadable} /\ cd.source_hash.text # h

\* C11: a construction that finds a cache directory whose reading or
\* validation fails (artifact missing or corrupt, marker unreadable or not
\* matching) never returns the cache's content and never raises for that
\* reason: it ends as, and returns the store of, a construction from an empty
\* cache directory.
C11_CacheFailureIsMiss ==
    [][\A p \in Paths :
          (/\ last'.op = "construct" /\ last'.path = p
           /\ CacheFails(cache, GetFileHash(source, p)))
          => (/\ last'.result.k # "cache"
              /\ last'.result.k = Construct(source, EmptyCache, p, pandas_major).how
              /\ db' = Construct(source, EmptyCache, p, pandas_major).self)]_vars

\* a construction has parsed the source after the load of a damaged artifact failed
C11_Witness ==
    /\ last.op = "construct" /\ last.result.k = "parsed"
    /\ last.result.log = "Failed loading timeline cache"
    /\ Built(db)

\* the intervals the build rules give a source array: one for each element
\* that is a record with a marker key and a recovered start and end, in
\* source order, none for any other element
RECURSIVE IntervalsOf(_)
IntervalsOf(items) ==
    IF items = <<>> THEN <<>>
    ELSE (IF IsMapping(Head(items)) /\ ~Skipped(Head(items))
          THEN <<IntervalTuple(Head(items))>> ELSE <<>>) \o IntervalsOf(Tail(items))

\* C12: a build from a source array (a construction that does not take the
\* cache) never aborts: it returns a store whose index holds exactly one
\* interval per record with a marker and a recovered start and end, in source
\* order, and nothing for any other element of the array.
C12_OneIntervalPerValidRecord ==
    (last.op = "construct" /\ last.result.k # "cache" /\ source[last.path].k = "array") =>
        /\ last.result.k = "parsed"
        /\ Built(db)
        /\ db.time_idx.ivs = IntervalsOf(source[last.path].items)

\* the record that produced the first interval of the store's index holding t
Matched(store, t) == Survivors(store.all_data.items)[SetMin(Containing(store, t))]

\* C13: a query that matches a record exactly returns, for a visit, the
\* coordinates of its place location; for an activity without a visit, those
\* of its start point and not of its end point; for any other record the
\* not-found location.
C13_LocationByRecordType ==
    (last.op = "query" /\ Built(db) /\ Containing(db, last.t) # {}) =>
        LET item == Matched(db, last.t)
        IN /\ "visit" \in item.keys => last.result = ParseGeoUri(item.placeLocation)
           /\ ("activity" \in item.keys /\ "visit" \notin item.keys) =>
                  /\ last.result = ParseGeoUri(item.start)
                  /\ last.result # ParseGeoUri(item.end)
           /\ ("activity" \notin item.keys /\ "visit" \notin item.keys) =>
                  last.result = NotFound

\* C14: a step of a query changes neither the store (index, record list,
\* source hash) nor a cache file nor the source, and a query that returns
\* while other queries run on the same store returns what the query run alone
\* returns.
C14_QueryIsReadOnly ==
    [][\A th \in Threads :
          threads'[th] # threads[th] =>
              /\ db' = db /\ cache' = cache /\ source' = source
              /\ threads'[th].pc = "done" =>
                     threads'[th].result = GetLocationAtTime(db, threads'[th].t)]_vars

\* two queries overlap: one has returned a location found in the store while
\* the other is between its lookup and its read of the record
C14_Witness ==
    \E th \in Threads, other \in Threads :
        /\ threads[th].pc = "done" /\ threads[th].result \notin {NotFound, Raised}
        /\ threads[other].pc = "located"

\* the absolute time of a datetime, in minutes UTC (a naive one read as UTC)
Instant(dt) == dt.wall - dt.utcoffset

\* C15: for every ISO-8601 date-time text ending in "Z", parse_dt_loose
\* returns what it returns for the same text with "Z" replaced by "+00:00":
\* both None or both a datetime of the same absolute time and the same
\* timezone-awareness.
C15_ZuluEqualsZeroOffset ==
    (/\ call.fn = "parse_dt_loose" /\ call.ret # Pending
     /\ call.arg.k \in {"stamp", "basic"} /\ call.arg.suffix = "Z") =>
        LET other == ParseDtLoose([call.arg EXCEPT !.suffix = "+00:00"])
        IN /\ (call.ret = None) <=> (other = None)
           /\ call.ret # None =>
                  /\ call.ret.k = "datetime" /\ other.k = "datetime"
                  /\ Instant(call.ret) = Instant(other)
                  /\ call.ret.aware = other.aware

\* a date-time in the basic format ending in "Z", which fromisoformat
\* refuses with or without the rewrite, has been parsed to an aware datetime
\* by the fallback from the original text
C15_Witness ==
    /\ call.fn = "parse_dt_loose" /\ call.arg.k = "basic" /\ call.arg.suffix = "Z"
    /\ call.ret # Pending /\ call.ret # None /\ call.ret.aware

\* Python's datetime == datetime: a naive and an aware value are never
\* equal, two naive ones are equal on equal fields, two aware ones on equal
\* absolute time; None equals no datetime
DatetimeEq(a, b) ==
    /\ a.k = "datetime" /\ b.k = "datetime"
    /\ a.aware = b.aware
    /\ IF a.aware THEN Instant(a) = Instant(b) ELSE a.wall = b.wall

\* C16: parse_dt_loose of an ISO date-time string with a "Z" suffix, a
\* "+00:00" suffix or no offset returns a value that compares equal to the
\* naive datetime of the same calendar fields; so do the start and end that
\* extract_interval returns for a mapping with "Z"-suffixed startTime and
\* endTime.
C16_EqualsNaiveDatetime ==
    /\ (/\ call.fn = "parse_dt_loose" /\ call.ret # Pending
        /\ call.arg.k = "stamp" /\ call.arg.suffix \in {"Z", "+00:00", ""}) =>
           DatetimeEq(call.ret, Datetime(call.arg.wall, ""))
    /\ (/\ call.fn = "extract_interval" /\ call.ret # Pending
        /\ call.arg.tokens = <<Pair("startTime", Stamp(0, "Z"), TRUE),
                               Pair("endTime", Stamp(2, "Z"), TRUE)>>
        /\ call.arg.parses) =>
           /\ DatetimeEq(call.ret.start_dt, Datetime(0, ""))
           /\ DatetimeEq(call.ret.end_dt, Datetime(2, ""))

\* the text is a date-time (in the extended or the basic format)
IsDateTime(s) == s.k \in {"stamp", "basic"}

\* C17: parse_dt_loose never raises: for every input (date-times, text that
\* is none, out-of-range components, "", None, a number) it returns a
\* datetime or None, and None whenever the input is no date-time.
C17_ParseNeverRaises ==
    (call.fn = "parse_dt_loose" /\ call.ret # Pending) =>
        /\ call.ret # Raised
        /\ call.ret = None \/ call.ret.k = "datetime"
        /\ ~IsDateTime(call.arg) => call.ret = None

\* parse_dt_loose has returned None for an input that is no string, or for
\* the out-of-range text that has the shape of a date-time
C17_Witness ==
    /\ call.fn = "parse_dt_loose" /\ call.ret = None
    /\ call.arg \in {Number, OutOfRange("Z")}

\* the six key names, as the mapping has them and in lower case
StartEndKeys == {"startTime", "start_time", "start", "endTime", "end_time", "end"}
StartEndKeysLower == {"starttime", "start_time", "start", "endtime", "end_time", "end"}

\* some fallback layer recovers a start or an end from the text: a top-level
\* string under one of the six keys of a text that parses, a quoted non-empty
\* value after one of the six keys anywhere, or a bare ISO timestamp
SomeLayerFinds(text) ==
    \E i \in 1..Len(text.tokens) :
        LET p == text.tokens[i]
        IN \/ text.parses /\ p.top /\ p.key \in StartEndKeys /\ IsStr(p.val)
           \/ Lower(p.key) \in StartEndKeysLower /\ IsStr(p.val) /\ p.val # EmptyString
           \/ p.val.k \in {"stamp", "out-of-range"} /\ p.val.suffix # ""

\* C18: extract_interval never fails: for every record text it returns a
\* triple (start, end, meta), and (None, None, meta) when no fallback layer
\* recovers a start or an end.
C18_ExtractNeverFails ==
    (call.fn = "extract_interval" /\ call.ret # Pending) =>
        /\ call.ret # Raised
        /\ DOMAIN call.ret = {"start_dt", "end_dt", "meta"}
        /\ ~SomeLayerFinds(call.arg) =>
               /\ call.ret.start_dt = None /\ call.ret.end_dt = None
               /\ call.ret.meta = [start_raw |-> None, end_raw |-> None]

\* extract_interval has returned (None, None, meta) for a text that does not
\* parse and holds nothing a layer picks up
C18_Witness ==
    /\ call.fn = "extract_interval" /\ call.ret # Pending
    /\ ~call.arg.parses /\ call.arg.tokens # <<>> /\ ~SomeLayerFinds(call.arg)
    /\ call.ret.start_dt = None /\ call.ret.end_dt = None

\* the value the mapping of a text that parses holds under the key (None: none)
MappingValue(text, key) == GetItem(ParseLooseMapping(text), key)

\* C19: for a text that parses as a mapping with string startTime and endTime
\* values, whatever other ISO timestamps it holds and wherever they stand,
\* extract_interval returns the mapping's startTime and endTime as start and
\* end; and a value a later layer finds never takes the place of a value an
\* earlier layer found: the start (end) is the one of the string the mapping
\* holds under startTime (endTime), whenever it holds one.
C19_MappingValuesWin ==
    (call.fn = "extract_interval" /\ call.ret # Pending /\ call.arg.parses) =>
        LET s == MappingValue(call.arg, "startTime")
            e == MappingValue(call.arg, "endTime")
        IN /\ (IsStr(s) /\ IsStr(e)) =>
                  /\ call.ret.meta = [start_raw |-> s, end_raw |-> e]
                  /\ call.ret.start_dt = ParseRaw(s) /\ call.ret.end_dt = ParseRaw(e)
           /\ IsStr(s) => call.ret.start_dt = ParseRaw(s)
           /\ IsStr(e) => call.ret.end_dt = ParseRaw(e)

\* the positions of the index whose closed interval holds t
Holding(time_idx, t) ==
    {i \in 1..Len(time_idx.ivs) : time_idx.ivs[i].left <= t /\ t <= time_idx.ivs[i].right}

\* C20: when some interval of the index contains the instant (its start and
\* its end counting as inside), find_interval_or_nearest returns (p, True)
\* with p the lowest position of a containing interval, also when several
\* intervals overlap the instant.
C20_LocateContaining ==
    (/\ call.fn = "find_interval_or_nearest" /\ call.ret # Pending
     /\ Holding(call.arg.time_idx, call.arg.t) # {}) =>
        /\ ~call.ret.raised
        /\ call.ret.contains
        /\ call.ret.pos \in Holding(call.arg.time_idx, call.arg.t)
        /\ \A j \in Holding(call.arg.time_idx, call.arg.t) : call.ret.pos <= j

\* two different intervals hold the instant, which is the end of the first
\* and the start of the second, and the first position has been returned
C20_Witness ==
    /\ call.fn = "find_interval_or_nearest" /\ call.ret # Pending
    /\ Len(call.arg.time_idx.ivs) = 2
    /\ call.arg.time_idx.ivs[1].left < call.arg.t
    /\ call.arg.time_idx.ivs[1].right = call.arg.t
    /\ call.arg.time_idx.ivs[2].left = call.arg.t
    /\ call.arg.time_idx.ivs[2].right > call.arg.t
    /\ call.ret = [raised |-> FALSE, pos |-> 1, contains |-> TRUE]

\* how far the instant t is from the nearer endpoint of the interval iv
EndpointDistance(iv, t) ==
    LET a == IF t >= iv.left THEN t - iv.left ELSE iv.left - t
        b == IF iv.right >= t THEN iv.right - t ELSE t - iv.right
    IN IF a < b THEN a ELSE b

\* C21: on a non-empty index none of whose intervals contains the instant,
\* find_interval_or_nearest returns (p, False) where p is a position of the
\* least distance between the instant and the nearer endpoint, and the
\* lowest of the positions of that least distance.
C21_LocateNearest ==
    (/\ call.fn = "find_interval_or_nearest" /\ call.ret # Pending
     /\ Len(call.arg.time_idx.ivs) > 0
     /\ Holding(call.arg.time_idx, call.arg.t) = {}) =>
        LET ivs == call.arg.time_idx.ivs
            t == call.arg.t
        IN /\ ~call.ret.raised
           /\ ~call.ret.contains
           /\ call.ret.pos \in 1..Len(ivs)
           /\ \A i \in 1..Len(ivs) :
                  /\ EndpointDistance(ivs[call.ret.pos], t) <= EndpointDistance(ivs[i], t)
                  /\ EndpointDistance(ivs[i], t) = EndpointDistance(ivs[call.ret.pos], t)
                         => call.ret.pos <= i

\* the instant lies between two intervals, as far from the end of the first
\* as from the start of the second, and the position of the first has been
\* returned
C21_Witness ==
    /\ call.fn = "find_interval_or_nearest" /\ call.ret # Pending
    /\ Len(call.arg.time_idx.ivs) = 2
    /\ call.arg.time_idx.ivs[1].right = call.arg.t - 1
    /\ call.arg.time_idx.ivs[2].left = call.arg.t + 1
    /\ call.ret = [raised |-> FALSE, pos |-> 1, contains |-> FALSE]

\* C22: in every state of a store, built by parsing or restored from a
\* cache, every interval of the index has its start at or before its end.
C22_StartBeforeEnd ==
    (db # None /\ db.time_idx # None) =>
        \A i \in 1..Len(db.time_idx.ivs) :
            db.time_idx.ivs[i].left <= db.time_idx.ivs[i].right

\* a store restored from the cache of a source that holds the activity
\* written end first: its interval runs from 1 to 2
C22_Witness ==
    /\ last.op = "construct" /\ last.result.k = "cache"
    /\ \E i \in 1..Len(db.all_data.items) :
           /\ db.all_data.items[i].keys = {"activity"}
           /\ ToUtcNaive(ParseDtLoose(db.all_data.items[i].startTime))
                > ToUtcNaive(ParseDtLoose(db.all_data.items[i].endTime))
    /\ \E i \in 1..Len(db.time_idx.ivs) :
           db.time_idx.ivs[i] = [left |-> 1, right |-> 2]

\* the absolute time a datetime denotes, a naive one being read as UTC
AbsoluteTime(dt) == IF dt.aware THEN dt.wall - dt.utcoffset ELSE dt.wall

\* C27: to_utc_naive maps a timezone-aware instant to its UTC wall clock
\* and a naive one to its own wall clock, so that two canonical values are
\* equal, or in an order, exactly when the absolute times of the two inputs
\* are, whatever their UTC offsets.
C27_CanonicalOrder ==
    (call.fn = "to_utc_naive" /\ call.ret # Pending) =>
        /\ call.arg.x.aware => call.ret.x = call.arg.x.wall - call.arg.x.utcoffset
        /\ ~call.arg.x.aware => call.ret.x = call.arg.x.wall
        /\ (call.ret.x = call.ret.y) = (AbsoluteTime(call.arg.x) = AbsoluteTime(call.arg.y))
        /\ (call.ret.x < call.ret.y) = (AbsoluteTime(call.arg.x) < AbsoluteTime(call.arg.y))

\* an instant with an offset of one minute and a naive one with an earlier
\* wall clock have been made canonical: they are the same absolute time
C27_Witness ==
    /\ call.fn = "to_utc_naive" /\ call.ret # Pending
    /\ call.arg.x.aware /\ call.arg.x.utcoffset = 1
    /\ ~call.arg.y.aware
    /\ call.arg.y.wall < call.arg.x.wall
    /\ call.ret.x = call.ret.y

\* C28: whenever _load_cache returns False (an artifact missing, the hash
\* not matching, or either artifact failing to deserialise) the store's
\* interval index and record list are what they were before the call.
C28_FailedLoadChangesNothing ==
    [][(last'.op = "load" /\ last'.result.k = "False")
          => (db'.time_idx = db.time_idx /\ db'.all_data = db.all_data)]_vars

\* C23: _save_cache on a store whose interval index or record list has not
\* been built fails with the invalid-state error and has no effect: no cache
\* directory is made and no artifact or marker file is written or changed.
C23_SaveNeedsBuiltStore ==
    [][\A th \in Threads :
          (/\ threads[th].pc = "save" /\ threads[th].op = "save"
           /\ (threads[th].self.time_idx = None \/ threads[th].self.all_data = None)
           /\ threads'[th] # threads[th])
          => (/\ threads'[th].pc = "done"
              /\ threads'[th].how = "ValueError"
              /\ ~threads'[th].save_ok
              /\ cache' = cache
              /\ origin' = origin)]_vars

\* a save on the object of a construction that raised has failed, and there
\* is no cache directory
C23_Witness ==
    /\ threads[Main].pc = "done" /\ threads[Main].op = "save"
    /\ threads[Main].self.time_idx = None
    /\ threads[Main].how = "ValueError"
    /\ ~cache.exists

\* C24: whenever _save_cache(cache_dir, source_hash) has returned, the cache
\* directory exists and holds an intervals artifact and a record-list
\* artifact written by that call and a hash marker whose content is the
\* source_hash of that call, never a marker left by an earlier save.
C24_SaveWritesAllThree ==
    (threads[Main].pc = "done" /\ threads[Main].save_ok) =>
        /\ cache.exists
        /\ cache.intervals = [k |-> "npz", arrs |-> threads[Main].self.time_idx.ivs]
        /\ origin.intervals = SaveId(Main)
        /\ cache.all_data = [k |-> "pkl", data |-> threads[Main].self.all_data.items]
        /\ origin.all_data = SaveId(Main)
        /\ cache.source_hash = [k |-> "txt", text |-> threads[Main].arg]
        /\ origin.source_hash = SaveId(Main)

\* no save is under way
NoSaveUnderWay ==
    \A th \in Threads :
        threads[th].pc \notin {"save", "write_intervals", "write_all_data", "write_marker"}

\* C25: a cache entry is only replaced as a whole: whenever no save is under
\* way, also after a save that failed having written some of its files, the
\* files present in the cache directory all come from one and the same save.
C25_ReplacedWholesale ==
    NoSaveUnderWay =>
        \E id \in {origin[f] : f \in CacheFiles} :
            \A f \in CacheFiles : cache[f] # Absent => origin[f] = id

\* C26: a construction loads the cache once, before any parse; one that hits
\* the cache parses nothing and writes nothing to the cache directory; one
\* that misses parses the source once and then attempts one save, and
\* attempts none when the parse fails.
C26_LoadParseSave ==
    \A th \in Threads :
        threads[th].op = "construct" =>
            /\ \E n \in 0..3 : threads[th].trace = SubSeq(<<"load", "parse", "save">>, 1, n)
            /\ threads[th].pc = "done" =>
                  \/ /\ threads[th].how = "cache"
                     /\ threads[th].trace = <<"load">>
                     /\ ~threads[th].wrote
                  \/ /\ threads[th].how = "parsed"
                     /\ threads[th].trace = <<"load", "parse", "save">>
                  \/ /\ threads[th].how \in {"FileNotFoundError", "JSONDecodeError", "TypeError"}
                     /\ threads[th].trace = <<"load", "parse">>
                     /\ ~threads[th].wrote

\* the second construction of a thread has found the cache its first one
\* saved and has returned the cached store
C26_Witness ==
    /\ threads[Main].pc = "done" /\ threads[Main].op = "construct"
    /\ threads[Main].n = 2
    /\ threads[Main].how = "cache"
    /\ origin.intervals = [k |-> "save", th |-> Main, n |-> 1]

\* the file f of the cache directory holds what a save of the parsed
\* content writes
DerivesFrom(f, content) ==
    cache[f] = (IF f = "intervals"
                THEN [k |-> "npz", arrs |-> AllIntervalTuples(content.items)]
                ELSE IF f = "all_data" THEN [k |-> "pkl", data |-> content.items]
                ELSE [k |-> "txt", text |-> Sha256(content)])

\* C29: once two constructions that ran at the same time over one cache
\* directory have both finished, whatever the order of their reads and
\* writes and of the edits of the source, the intervals artifact, the
\* record-list artifact and the hash marker derive from one source content.
C29_RacingConstructions ==
    (\A th \in Threads : threads[th].pc = "done" /\ threads[th].op = "construct") =>
        \E v \in 1..2 :
            \A f \in CacheFiles : cache[f] # Absent => DerivesFrom(f, versions[v])

\* C30: when the source has been parsed and the save of the cache fails
\* during the construction, the construction still returns without raising
\* and the store holds the index and the record list of the parse.
C30_SaveFailureIsSwallowed ==
    \A th \in Threads :
        (/\ threads[th].pc = "done" /\ threads[th].op = "construct"
         /\ threads[th].content # None
         /\ ~threads[th].save_ok) =>
            /\ threads[th].how = "parsed"
            /\ threads[th].self.time_idx = FromTuples(AllIntervalTuples(threads[th].content.items))
            /\ threads[th].self.all_data = [k |-> "list", items |-> threads[th].content.items]

\* a construction has returned its parsed store after the write of the
\* record list broke off
C30_Witness ==
    /\ threads[Main].pc = "done" /\ threads[Main].op = "construct"
    /\ threads[Main].how = "parsed" /\ ~threads[Main].save_ok
    /\ Len(threads[Main].self.time_idx.ivs) = 1
    /\ cache.all_data = Corrupt
    /\ origin.all_data = SaveId(Main)

====
